---- MODULE Spec2Model ----
(***************************************************************************)
(* Model of the ukps-domains lookup library (libraries/python/src/core.py, *)
(* class UKPSDomains), of the registry documents it reads, and of the      *)
(* collector that maintains the registry (bin/crawl_localgov.py).          *)
(*                                                                         *)
(* Python values are modelled as follows:                                  *)
(*   str            a sequence of one-character strings                    *)
(*   Optional[x]    a sequence of length <= 1: <<>> is None, <<x>> is x    *)
(*   dict           a function whose domain is the set of keys present     *)
(*   JSON document  [kind |-> "array", items |-> <<...>>] or               *)
(*                  [kind |-> "object", keys |-> <<...>>, ...]             *)
(***************************************************************************)
EXTENDS Integers, Sequences, FiniteSets, TLC

VARIABLES
    phase,        \* "new": inside __init__; "ready": constructed; "failed": __init__ raised
    USE_REQUESTS, \* module flag: the requests import succeeded
    allow_remote, \* self.allow_remote
    data_source,  \* self.data_source: <<>> (None), <<"remote">> or <<"local">>
    _data,        \* self._data: file name -> Optional[document]
    rpc,          \* position of the thread running refresh(): "idle", "remote", "local"
    ri,           \* index into self.files of the file the running loop handles next
    nrefresh,     \* number of refresh() calls started so far
    outcome,      \* how the last refresh() ended: "none", "returned", "raised"
    fetchLog,     \* history: the per-document attempts of the current refresh()
    prov,         \* history: for each file, the load and the source that stored _data[file]
    before,       \* history: prov as it was when the current refresh() started
    published,    \* history: _data as the last successful load stored it
    lpc,          \* position of the thread running a lookup: "idle", "enrich"
    call,         \* the lookup call in progress or last completed
    result,       \* what the last completed lookup gave its caller
    prev,         \* history: the lookup completed before the one in call, with its result
    nin,          \* input of the last _normalise_domain call checked on its own
    nout,         \* its outcome
    cpc,          \* position in crawl_localgov.main: "start", "crawled", "checked",
                  \* "removed", "done"
    remove,       \* args.remove: the collector was started with --remove
    user_domains, \* data/user_domains.json as persisted: [version, domains]
    data,         \* main's data, the registry loaded from file
    council_results,  \* what crawl_councils returned
    crawled_domains,  \* main's set of lower-cased crawled domains
    stale_domains,    \* what find_stale_domains returned
    counts,       \* main's new_count, updated_count, removed_count
    old_domains,  \* history: data["domains"] before the last function that changes it
    runs,         \* number of runs of main started so far
    file_before   \* history: data/user_domains.json as the current run of main loaded it

vars == <<phase, USE_REQUESTS, allow_remote, data_source, _data, rpc, ri, nrefresh,
          outcome, fetchLog, prov, before, published, lpc, call, result, prev, nin, nout,
          cpc, remove, user_domains, data, council_results, crawled_domains, stale_domains,
          counts, old_domains, runs, file_before>>

loaderVars == <<phase, USE_REQUESTS, allow_remote, data_source, rpc, ri, nrefresh,
                outcome, fetchLog, before>>
lookupVars == <<lpc, call, result>>
normVars == <<nin, nout>>
collectorVars == <<cpc, remove, user_domains, data, council_results, crawled_domains,
                   stale_domains, counts, old_domains, runs, file_before>>

----------------------------------------------------------------------------
(* Bounds of the model *)

\* longest input string given to _normalise_domain on its own
MaxLen == 4
\* number of refresh() calls of one behaviour, the constructor's included
MaxRefresh == 2
\* most entries of a registry the lookups and the collector are checked on
MaxEntries == 2
\* number of lookups one caller makes in a row
MaxCalls == 2

----------------------------------------------------------------------------
(* Strings *)

None == <<>>
Some(x) == <<x>>

\* str.lower() on one character: the letters A-Z have a lower-case form
LowerCase ==
    [A |-> "a", B |-> "b", C |-> "c", D |-> "d", E |-> "e", F |-> "f", G |-> "g",
     H |-> "h", I |-> "i", J |-> "j", K |-> "k", L |-> "l", M |-> "m", N |-> "n",
     O |-> "o", P |-> "p", Q |-> "q", R |-> "r", S |-> "s", T |-> "t", U |-> "u",
     V |-> "v", W |-> "w", X |-> "x", Y |-> "y", Z |-> "z"]

LowerChar(c) == IF c \in DOMAIN LowerCase THEN LowerCase[c] ELSE c

WhiteSpace == {" ", "\t", "\n"}

\* str.lower()
Lower(s) == [i \in DOMAIN s |-> LowerChar(s[i])]

\* str.lstrip(): drops every leading whitespace character
RECURSIVE LStrip(_)
LStrip(s) ==
    IF s # <<>> /\ Head(s) \in WhiteSpace THEN LStrip(Tail(s)) ELSE s

\* str.rstrip(chars): drops every trailing character that is in chars
RECURSIVE RStrip(_, _)
RStrip(s, chars) ==
    IF s # <<>> /\ s[Len(s)] \in chars
    THEN RStrip(SubSeq(s, 1, Len(s) - 1), chars)
    ELSE s

\* a faulty variant of Strip: leading whitespace is kept
StripTrailing(s) == RStrip(s, WhiteSpace)

\* str.strip()
Strip(s) == RStrip(LStrip(s), WhiteSpace)

\* c in s
Contains(s, c) == \E i \in DOMAIN s : s[i] = c

\* s.startswith(p)
StartsWith(s, p) == Len(p) <= Len(s) /\ SubSeq(s, 1, Len(p)) = p

\* s.endswith(p)
EndsWith(s, p) == Len(p) <= Len(s) /\ SubSeq(s, Len(s) - Len(p) + 1, Len(s)) = p

\* every string over chars of length at most n
RECURSIVE StringsUpTo(_, _)
StringsUpTo(chars, n) ==
    IF n = 0 THEN {<<>>}
    ELSE LET shorter == StringsUpTo(chars, n - 1)
         IN  shorter \cup {Append(s, c) : s \in shorter, c \in chars}

----------------------------------------------------------------------------
(* _normalise_domain *)

\* a faulty variant of TrailingDotsStripped: removes one trailing dot only
OneTrailingDotStripped(s) ==
    IF s # <<>> /\ s[Len(s)] = "." THEN SubSeq(s, 1, Len(s) - 1) ELSE s

\* .rstrip(".") of line 105
TrailingDotsStripped(s) == RStrip(s, {"."})

Raise(e) == [kind |-> "raise", err |-> e]
Return(v) == [kind |-> "return", val |-> v]

\* UKPSDomains._normalise_domain; domain is an Optional[str]
_normalise_domain(domain) ==
    LET res_domain == IF domain # None
                      THEN Some(TrailingDotsStripped(Lower(Strip(domain[1]))))
                      ELSE None
    IN  IF res_domain = None \/ ~Contains(res_domain[1], ".")
        THEN Raise("ValueError")
        ELSE Return(res_domain[1])

----------------------------------------------------------------------------
(* Documents: the two JSON files of UKPSDOMAINS_FILES *)

REGISTRY == "user_domains.json"
DIRECTORY == "govuk_organisations.json"

\* config.UKPSDOMAINS_FILES, in order
UKPSDOMAINS_FILES == <<REGISTRY, DIRECTORY>>

\* a JSON array
Array(items) == [kind |-> "array", items |-> items]

\* a JSON object with its keys in document order
Object(keys, map) == [kind |-> "object", keys |-> keys, map |-> map]

\* dict.get(k, default)
Get(d, k, default) == IF k \in DOMAIN d THEN d[k] ELSE default

\* a Domain Entry as the collector writes it (crawl_localgov.merge_domains)
Entry(pattern, org, notes, source) ==
    [domain_pattern |-> pattern, notes |-> notes, organisation_id |-> org, source |-> source]

\* the registry as save_user_domains / format_user_domains persist it
Persisted(version, entries) ==
    Object(<<"version", "domains">>, [version |-> version, domains |-> entries])

a_b == <<"a", ".", "b">>
A_b == <<"A", ".", "b">>
a_b_dot == <<"a", ".", "b", ".">>
c_a_b == <<"c", ".", "a", ".", "b">>
c_b == <<"c", ".", "b">>
star_a_b == <<"*", ".", "a", ".", "b">>
star_b == <<"*", ".", "b">>
ba_b == <<"b", "a", ".", "b">>
dot_a_b == <<".", "a", ".", "b">>

E_exact == Entry(a_b, Some("o1"), "Local authority: A", "localgov.co.uk")
E_upper == Entry(A_b, None, "stored with an upper-case letter", "manual")
E_dot == Entry(a_b_dot, None, "stored with a trailing dot", "manual")
E_wild_ab == Entry(star_a_b, Some("o2"), "subdomains of a.b", "manual")
E_wild_b == Entry(star_b, Some("o1"), "subdomains of b", "manual")
E_sub == Entry(c_a_b, None, "Local authority: C", "localgov.co.uk")

Org1 == [title |-> "Organisation one"]
Org1b == [title |-> "Organisation one, renamed"]

\* an organisation directory keyed by organisation id
DirKeyed == Object(<<"o1">>, [o1 |-> Org1])
DirKeyedNew == Object(<<"o1">>, [o1 |-> Org1b])
\* the directory as fetch_govuk_organisations.main writes it: the array of results
DirListed == Array(<<Org1>>)

\* the pattern after the normalisation the registry's uniqueness is stated under:
\* merge_domains keys the entries by the lower-cased pattern; a trailing dot is
\* dropped as _normalise_domain drops it
Canonical(pattern) == TrailingDotsStripped(Lower(pattern))

UniquePatterns(items) ==
    \A i, j \in DOMAIN items :
        i # j => Canonical(items[i].domain_pattern) # Canonical(items[j].domain_pattern)

\* every sequence of at most n entries of es whose patterns are unique
RECURSIVE EntrySeqs(_, _)
EntrySeqs(es, n) ==
    IF n = 0 THEN {<<>>}
    ELSE LET shorter == EntrySeqs(es, n - 1)
         IN  shorter \cup {Append(s, e) : s \in shorter, e \in es}

Registries(es, n) == {s \in EntrySeqs(es, n) : UniquePatterns(s)}

----------------------------------------------------------------------------
(* organisational_context_for_domain: the scan of the registry *)

EmptyDict == <<>>

\* truth value of a dict
TruthyDict(d) == DOMAIN d # {}

\* truth value of an Optional[str] whose strings are identifiers
TruthyId(v) == v # None /\ v[1] # ""

\* domain == pattern of line 137
ExactMatch(pattern, domain) == domain = pattern

\* a faulty variant of WildcardMatch: the suffix is taken without its dot
WildcardMatchNoDot(pattern, domain) ==
    StartsWith(pattern, <<"*", ".">>) /\ EndsWith(domain, Tail(Tail(pattern)))

\* lines 140-142: pattern.startswith("*.") and domain.endswith(pattern[1:])
WildcardMatch(pattern, domain) ==
    StartsWith(pattern, <<"*", ".">>) /\ EndsWith(domain, Tail(pattern))

\* a faulty variant of Candidate: the first matching wildcard is kept
CandidateFirst(maybe_res, i) == IF maybe_res = 0 THEN i ELSE maybe_res

\* line 143: maybe_res = entry (entries are named by their index, 0 is None)
Candidate(maybe_res, i) == i

\* the loop of lines 134-143 from entry i on; res and maybe_res are indices
RECURSIVE ScanFrom(_, _, _, _)
ScanFrom(items, domain, i, maybe_res) ==
    IF i > Len(items) THEN [res |-> 0, maybe_res |-> maybe_res]
    ELSE LET pattern == Get(items[i], "domain_pattern", <<>>)
         IN  IF pattern = <<>> THEN ScanFrom(items, domain, i + 1, maybe_res)
             ELSE IF ExactMatch(pattern, domain)
                  THEN [res |-> i, maybe_res |-> maybe_res]
             ELSE IF WildcardMatch(pattern, domain)
                  THEN ScanFrom(items, domain, i + 1, Candidate(maybe_res, i))
             ELSE ScanFrom(items, domain, i + 1, maybe_res)

\* a faulty variant of Selected: a wildcard candidate replaces the exact match
SelectedWildcardFirst(res, maybe_res) == IF maybe_res # 0 THEN maybe_res ELSE res

\* lines 145-146: if not res and maybe_res: res = maybe_res
Selected(res, maybe_res) == IF res = 0 /\ maybe_res # 0 THEN maybe_res ELSE res

\* lines 134-146 on the document self._data.get("user_domains.json", []):
\* iterating an array gives its items; iterating an object gives its keys,
\* which are strings, and entry.get on a string raises AttributeError
ScanDocument(doc, domain) ==
    IF doc.kind = "array"
    THEN LET s == ScanFrom(doc.items, domain, 1, 0)
         IN  Return([idx |-> Selected(s.res, s.maybe_res), items |-> doc.items])
    ELSE IF doc.keys = <<>> THEN Return([idx |-> 0, items |-> <<>>])
    ELSE Raise("AttributeError")

\* line 149: self._data.get("govuk_organisations.json", {}).get(id, {});
\* a list has no get
DirectoryGet(doc, id) ==
    IF doc.kind = "object" THEN Return(Get(doc.map, id, EmptyDict))
    ELSE Raise("AttributeError")

\* line 151: res["govuk_data"] = govuk_data
WithGovukData(entry, govuk_data) ==
    [k \in DOMAIN entry \cup {"govuk_data"} |->
        IF k = "govuk_data" THEN govuk_data ELSE entry[k]]

\* a faulty variant of AfterLastAt: the text after the first "@" (split for rsplit)
AfterFirstAt(s) ==
    LET i == CHOOSE k \in DOMAIN s : s[k] = "@" /\ \A j \in 1..(k - 1) : s[j] # "@"
    IN  SubSeq(s, i + 1, Len(s))

\* UKPSDomains._extract_domain_from_email; email is an Optional[str];
\* AfterLastAt(s) is s.rsplit("@", 1)[1] for an s that holds an "@"
RECURSIVE AfterLastAt(_)
AfterLastAt(s) ==
    IF ~Contains(Tail(s), "@") /\ Head(s) = "@" THEN Tail(s) ELSE AfterLastAt(Tail(s))

_extract_domain_from_email(email) ==
    IF email = None \/ email[1] = <<>> \/ ~Contains(email[1], "@") THEN None
    ELSE Some(AfterLastAt(email[1]))

----------------------------------------------------------------------------
(* The loader: __init__, refresh, _fetch_remote, _load_local *)

Files == {UKPSDOMAINS_FILES[i] : i \in DOMAIN UKPSDOMAINS_FILES}

NoProv == [load |-> 0, origin |-> "none"]
NoCall == [op |-> "none", input |-> None, with_govuk_data |-> FALSE, idx |-> 0,
           entry |-> None, regProv |-> NoProv, dirProv |-> None,
           before |-> [f \in Files |-> NoProv], overlap |-> FALSE, loaded |-> FALSE]
Pending == [kind |-> "pending"]

\* the documents a source may hold for a file while the loader runs
SourceDocs(file) ==
    IF file = REGISTRY
    THEN {Array(<<E_exact>>), Array(<<E_wild_b, E_exact>>)}
    ELSE {DirKeyed, DirKeyedNew}

\* a faulty variant of LoopNext: a failed document does not end the loop (continue for break)
LoopNextNoBreak(ok, i, n) == [done |-> i = n, res |-> ok, i |-> i + 1]

\* the control of the loops of _fetch_remote (lines 72-84) and _load_local
\* (lines 89-100) after file i of n: a success goes on with res = True, a failure
\* sets res = False and breaks
LoopNext(ok, i, n) ==
    IF ok THEN [done |-> i = n, res |-> TRUE, i |-> i + 1]
    ELSE [done |-> TRUE, res |-> FALSE, i |-> i]

\* a faulty variant of RemoteDisabled: self.allow_remote is not consulted
RemoteDisabledIgnoresAllow(use_requests, allow) == ~use_requests

\* lines 64-68: _fetch_remote returns False before any request
RemoteDisabled(use_requests, allow) == ~use_requests \/ ~allow

\* __init__ (lines 31-39): the state before the constructor calls refresh()
LoaderInit ==
    /\ phase = "new"
    /\ USE_REQUESTS \in BOOLEAN
    /\ allow_remote \in BOOLEAN
    /\ data_source = None
    /\ _data = [f \in Files |-> None]
    /\ rpc = "idle"
    /\ ri = 1
    /\ nrefresh = 0
    /\ outcome = "none"
    /\ fetchLog = <<>>
    /\ prov = [f \in Files |-> NoProv]
    /\ before = [prov |-> prov, source |-> data_source]
    /\ published = _data

\* refresh(allow_remote=arg) up to the first document; __init__ calls refresh(),
\* later calls are the caller's, on whichever instance it holds
RefreshBegin(arg) ==
    /\ rpc = "idle"
    /\ phase = "new" => arg = None
    /\ nrefresh < MaxRefresh
    /\ allow_remote' = IF arg # None THEN arg[1] ELSE allow_remote
    /\ nrefresh' = nrefresh + 1
    /\ fetchLog' = <<>>
    /\ before' = [prov |-> prov, source |-> data_source]
    /\ outcome' = "running"
    /\ rpc' = IF RemoteDisabled(USE_REQUESTS, allow_remote') THEN "local" ELSE "remote"
    /\ ri' = 1
    /\ UNCHANGED <<phase, USE_REQUESTS, data_source, _data, prov, published>>
    /\ UNCHANGED <<lookupVars, prev, normVars, collectorVars>>

\* one iteration of the loop of _fetch_remote or _load_local, and what follows it
\* in refresh when the loop ends; got is the document obtained, None on any error
LoadFile(src, got) ==
    LET file == UKPSDOMAINS_FILES[ri]
        ok == got # None
        nx == LoopNext(ok, ri, Len(UKPSDOMAINS_FILES))
    IN  /\ rpc = src
        /\ _data' = IF ok THEN [_data EXCEPT ![file] = got] ELSE _data
        /\ prov' = IF ok THEN [prov EXCEPT ![file] = [load |-> nrefresh, origin |-> src]]
                   ELSE prov
        /\ fetchLog' = Append(fetchLog, [src |-> src, file |-> file, ok |-> ok])
        /\ IF ~nx.done
           THEN /\ ri' = nx.i
                /\ UNCHANGED <<rpc, data_source, outcome, phase, published>>
           ELSE IF nx.res
           THEN /\ data_source' = Some(src)
                /\ rpc' = "idle"
                /\ ri' = 1
                /\ outcome' = "returned"
                /\ phase' = "ready"
                /\ published' = _data'
           ELSE IF src = "remote"
           THEN /\ rpc' = "local"
                /\ ri' = 1
                /\ UNCHANGED <<data_source, outcome, phase, published>>
           ELSE /\ rpc' = "idle"
                /\ ri' = 1
                /\ outcome' = "raised"
                /\ phase' = IF phase = "new" THEN "failed" ELSE phase
                /\ UNCHANGED <<data_source, published>>
        /\ UNCHANGED <<USE_REQUESTS, allow_remote, nrefresh, before>>
        /\ UNCHANGED <<lookupVars, prev, normVars, collectorVars>>

FetchRemoteFile ==
    \E got \in {None} \cup {Some(d) : d \in SourceDocs(UKPSDOMAINS_FILES[ri])} :
        LoadFile("remote", got)

LoadLocalFile ==
    \E got \in {None} \cup {Some(d) : d \in SourceDocs(UKPSDOMAINS_FILES[ri])} :
        LoadFile("local", got)

----------------------------------------------------------------------------
(* The lookups *)

Ops == {"organisational_context_for_domain", "organisational_context_for_email",
        "is_ukps_domain", "is_ukps_email"}
EmailOps == {"organisational_context_for_email", "is_ukps_email"}
PredicateOps == {"is_ukps_domain", "is_ukps_email"}

\* what the operation hands its caller, given what organisational_context_for_domain
\* gave: is_ukps_domain / is_ukps_email (lines 110-113, 120-123) turn a return
\* into a bool, an exception propagates
Finish(op, r) ==
    IF op \in PredicateOps /\ r.kind = "return"
    THEN Return(r.val # None /\ Get(r.val[1], "domain_pattern", None) # None)
    ELSE r

\* a faulty variant of NotLoaded: the check of line 126 is left out
NotLoadedUnchecked(source) == FALSE

\* line 126: not self.data_source
NotLoaded(source) == source = None

\* a lookup up to the end of the scan (lines 126-146) and, when line 148 does not
\* go on to read the organisation directory, to its return. The instance is the
\* constructed one or the one whose constructor raised (the object __init__ was
\* filling, which the raised exception's traceback still refers to); what
\* becomes of prev is for the specification to say
LookupBegin(op, input, with) ==
    LET domain == IF op \in EmailOps THEN _extract_domain_from_email(input) ELSE input
        with_govuk_data == IF op \in PredicateOps THEN FALSE ELSE with
        n == _normalise_domain(domain)
        doc == IF _data[REGISTRY] = None THEN Array(<<>>) ELSE _data[REGISTRY][1]
        sc == ScanDocument(doc, n.val)
        found == IF sc.val.idx = 0 THEN None ELSE Some(sc.val.items[sc.val.idx])
        base == [op |-> op, input |-> input, with_govuk_data |-> with_govuk_data,
                 idx |-> 0, entry |-> None, regProv |-> NoProv, dirProv |-> None,
                 before |-> IF rpc = "idle" THEN prov ELSE before.prov,
                 overlap |-> rpc # "idle",
                 loaded |-> \E f \in Files : published[f] # None]
    IN  /\ lpc = "idle"
        /\ phase \in {"ready", "failed"}
        /\ IF NotLoaded(data_source)
           THEN /\ result' = Finish(op, Raise("RuntimeError"))
                /\ call' = base
                /\ lpc' = "idle"
           ELSE IF n.kind = "raise"
           THEN /\ result' = Finish(op, n)
                /\ call' = base
                /\ lpc' = "idle"
           ELSE IF sc.kind = "raise"
           THEN /\ result' = Finish(op, sc)
                /\ call' = [base EXCEPT !.regProv = prov[REGISTRY]]
                /\ lpc' = "idle"
           ELSE IF /\ found # None
                   /\ TruthyId(Get(found[1], "organisation_id", None))
                   /\ with_govuk_data
           THEN /\ result' = Pending
                /\ call' = [base EXCEPT !.regProv = prov[REGISTRY],
                                        !.idx = sc.val.idx, !.entry = found]
                /\ lpc' = "enrich"
           ELSE /\ result' = Finish(op, Return(found))
                /\ call' = [base EXCEPT !.regProv = prov[REGISTRY],
                                        !.idx = sc.val.idx, !.entry = found]
                /\ lpc' = "idle"
        /\ UNCHANGED <<_data, prov, published, loaderVars, normVars, collectorVars>>

\* lines 148-153: the read of the organisation directory and the write of
\* govuk_data into the matched entry, which is the object the registry holds
LookupEnrich ==
    LET doc == IF _data[DIRECTORY] = None THEN Object(<<>>, EmptyDict)
               ELSE _data[DIRECTORY][1]
        res == call.entry[1]
        g == DirectoryGet(doc, res.organisation_id[1])
        enriched == WithGovukData(res, g.val)
        stored == prov[REGISTRY] = call.regProv
        seen == [call EXCEPT !.dirProv = Some(prov[DIRECTORY]),
                             !.overlap = call.overlap \/ rpc # "idle"]
    IN  /\ lpc = "enrich"
        /\ lpc' = "idle"
        /\ IF g.kind = "raise"
           THEN /\ result' = Finish(call.op, g)
                /\ call' = seen
                /\ UNCHANGED _data
           ELSE IF TruthyDict(g.val)
           THEN /\ result' = Finish(call.op, Return(Some(enriched)))
                /\ call' = [seen EXCEPT !.entry = Some(enriched)]
                /\ _data' = IF stored
                            THEN [_data EXCEPT ![REGISTRY][1].items[call.idx] = enriched]
                            ELSE _data
           ELSE /\ result' = Finish(call.op, Return(call.entry))
                /\ call' = seen
                /\ UNCHANGED _data
        /\ UNCHANGED <<prov, published, prev, loaderVars, normVars, collectorVars>>

----------------------------------------------------------------------------
(* Specifications *)

\* no lookup was completed before the current one
NoPrev ==
    [op |-> "none", input |-> None, with_govuk_data |-> FALSE, result |-> Pending, n |-> 0]

LookupIdle ==
    /\ lpc = "idle"
    /\ call = NoCall
    /\ result = Pending
    /\ prev = NoPrev

\* the version field of the persisted registry, "0.0.4", as major, minor, patch
FirstVersion == <<0, 0, 4>>

\* crawl_localgov.main has not started; the registry file is empty
CollectorIdle ==
    /\ cpc = "start"
    /\ remove = FALSE
    /\ user_domains = [version |-> FirstVersion, domains |-> <<>>]
    /\ data = None
    /\ council_results = <<>>
    /\ crawled_domains = {}
    /\ stale_domains = <<>>
    /\ counts = [new_count |-> 0, updated_count |-> 0, removed_count |-> 0]
    /\ old_domains = <<>>
    /\ runs = 0
    /\ file_before = user_domains

NormIdle ==
    /\ nin = None
    /\ nout = Pending

u_at_a_b == <<"u", "@", "a", ".", "b">>

\* the lookups that run beside the loader: <<operation, input, with_govuk_data>>
LoaderCalls ==
    {<<"organisational_context_for_domain", Some(a_b), TRUE>>,
     <<"organisational_context_for_email", Some(u_at_a_b), FALSE>>,
     <<"is_ukps_domain", Some(c_b), FALSE>>,
     <<"is_ukps_email", Some(a_b), FALSE>>}

\* Spec: one instance from its construction on, a thread that calls refresh()
\* and a thread that calls the lookups
Init == LoaderInit /\ LookupIdle /\ NormIdle /\ CollectorIdle

Refresh == \E arg \in {None, Some(TRUE), Some(FALSE)} : RefreshBegin(arg)

Lookup == \E c \in LoaderCalls : LookupBegin(c[1], c[2], c[3]) /\ UNCHANGED prev

Next ==
    \/ Refresh
    \/ FetchRemoteFile
    \/ LoadLocalFile
    \/ Lookup
    \/ LookupEnrich

Spec == Init /\ [][Next]_vars

\* SpecLookup: the lookups on an instance that has loaded a registry and a
\* directory and is not refreshed
LookupEntries == {E_exact, E_upper, E_dot, E_wild_ab, E_wild_b, E_sub}

LookupRegistryDocs ==
    {Array(r) : r \in Registries(LookupEntries, MaxEntries)}
        \cup {Persisted("0.1.0", <<E_exact>>), Persisted("0.1.0", <<>>)}

LookupDirectoryDocs == {DirKeyed, DirListed}

DomainInputs ==
    {None, Some(a_b), Some(A_b), Some(a_b_dot), Some(<<" ", "a", ".", "b">>),
     Some(c_a_b), Some(c_b), Some(<<"a", "b">>), Some(ba_b), Some(dot_a_b)}

\* the lookups checked: <<operation, input, with_govuk_data>>
LookupCalls ==
    {<<"organisational_context_for_domain", input, with>> :
        input \in DomainInputs, with \in BOOLEAN}

InitLookup ==
    /\ phase = "ready"
    /\ USE_REQUESTS = FALSE
    /\ allow_remote = FALSE
    /\ data_source = Some("local")
    /\ \E r \in LookupRegistryDocs, d \in LookupDirectoryDocs :
           _data = [f \in Files |-> IF f = REGISTRY THEN Some(r) ELSE Some(d)]
    /\ rpc = "idle"
    /\ ri = 1
    /\ nrefresh = 1
    /\ outcome = "returned"
    /\ fetchLog = <<[src |-> "local", file |-> REGISTRY, ok |-> TRUE],
                    [src |-> "local", file |-> DIRECTORY, ok |-> TRUE]>>
    /\ prov = [f \in Files |-> [load |-> 1, origin |-> "local"]]
    /\ before = [prov |-> [f \in Files |-> NoProv], source |-> None]
    /\ published = _data
    /\ LookupIdle
    /\ NormIdle
    /\ CollectorIdle

LookupAny == \E c \in LookupCalls : LookupBegin(c[1], c[2], c[3]) /\ UNCHANGED prev

NextLookup ==
    \/ LookupAny
    \/ LookupEnrich

SpecLookup == InitLookup /\ [][NextLookup]_vars

\* SpecNorm: _normalise_domain on every short string
NormChars == {"a", "A", ".", " "}

NormInputs ==
    {None} \cup {Some(s) : s \in StringsUpTo(NormChars, MaxLen)}
           \cup {Some(<<" ", "E", "x", "a", "m", "p", "l", "e", ".", "G", "O", "V", ".", "U", "K", ".">>),
                 Some(<<"n", "o", "t", "-", "a", "-", "d", "o", "m", "a", "i", "n">>)}

InitNorm ==
    /\ phase = "ready"
    /\ USE_REQUESTS = FALSE
    /\ allow_remote = FALSE
    /\ data_source = Some("local")
    /\ _data = [f \in Files |-> IF f = REGISTRY THEN Some(Array(<<>>)) ELSE Some(DirKeyed)]
    /\ rpc = "idle"
    /\ ri = 1
    /\ nrefresh = 1
    /\ outcome = "returned"
    /\ fetchLog = <<>>
    /\ prov = [f \in Files |-> [load |-> 1, origin |-> "local"]]
    /\ before = [prov |-> [f \in Files |-> NoProv], source |-> None]
    /\ published = _data
    /\ LookupIdle
    /\ nin \in NormInputs
    /\ nout = Pending
    /\ CollectorIdle

Normalise ==
    /\ nout = Pending
    /\ nout' = _normalise_domain(nin)
    /\ UNCHANGED <<nin, _data, prov, published, loaderVars, lookupVars, prev, collectorVars>>

NextNorm == Normalise

SpecNorm == InitNorm /\ [][NextNorm]_vars

\* SpecCalls: a caller that makes MaxCalls lookups in a row, of any of the four
\* operations, on an instance that has loaded a registry and a directory and is
\* not refreshed
CallRegistryDocs ==
    {Array(<<E_exact, E_sub>>), Array(<<E_wild_ab, E_exact>>),
     Persisted("0.1.0", <<E_exact>>)}

CallDirectoryDocs == {DirKeyed, DirListed}

sp_a_b == <<" ", "a", ".", "b">>
at_a_b == <<"@", "a", ".", "b">>
v_at_u_at_a_b == <<"v", "@", "u", "@", "a", ".", "b">>
u_at_c_b == <<"u", "@", "c", ".", "b">>
u_at == <<"u", "@">>

CallDomainInputs ==
    {None, Some(<<>>), Some(a_b), Some(A_b), Some(a_b_dot), Some(sp_a_b), Some(c_a_b),
     Some(c_b), Some(<<"a", "b">>)}

CallEmailInputs ==
    {None, Some(u_at_a_b), Some(at_a_b), Some(a_b), Some(v_at_u_at_a_b), Some(u_at_c_b),
     Some(u_at)}

\* the lookups the caller chooses from: <<operation, input, with_govuk_data>>
Calls ==
    {<<"organisational_context_for_domain", input, FALSE>> : input \in CallDomainInputs}
        \cup {<<"organisational_context_for_domain", input, TRUE>> :
                  input \in {Some(a_b), Some(A_b), Some(c_a_b)}}
        \cup {<<"organisational_context_for_email", input, FALSE>> : input \in CallEmailInputs}
        \cup {<<"organisational_context_for_email", Some(u_at_a_b), TRUE>>}
        \cup {<<"is_ukps_domain", input, FALSE>> :
                  input \in {None, Some(a_b), Some(c_b), Some(<<"a", "b">>)}}
        \cup {<<"is_ukps_email", input, FALSE>> :
                  input \in {Some(u_at_a_b), Some(u_at_c_b), Some(a_b), Some(at_a_b)}}

InitCalls ==
    /\ phase = "ready"
    /\ USE_REQUESTS = FALSE
    /\ allow_remote = FALSE
    /\ data_source = Some("local")
    /\ \E r \in CallRegistryDocs, d \in CallDirectoryDocs :
           _data = [f \in Files |-> IF f = REGISTRY THEN Some(r) ELSE Some(d)]
    /\ rpc = "idle"
    /\ ri = 1
    /\ nrefresh = 1
    /\ outcome = "returned"
    /\ fetchLog = <<[src |-> "local", file |-> REGISTRY, ok |-> TRUE],
                    [src |-> "local", file |-> DIRECTORY, ok |-> TRUE]>>
    /\ prov = [f \in Files |-> [load |-> 1, origin |-> "local"]]
    /\ before = [prov |-> [f \in Files |-> NoProv], source |-> None]
    /\ published = _data
    /\ LookupIdle
    /\ NormIdle
    /\ CollectorIdle

\* the number of lookups the caller has started
CallsStarted == IF call.op = "none" THEN 0 ELSE prev.n + 1

\* the caller's next lookup; the one it has completed becomes prev
LookupNext ==
    /\ CallsStarted < MaxCalls
    /\ \E c \in Calls : LookupBegin(c[1], c[2], c[3])
    /\ prev' = [op |-> call.op, input |-> call.input,
                with_govuk_data |-> call.with_govuk_data, result |-> result,
                n |-> CallsStarted]

NextCalls ==
    \/ LookupNext
    \/ LookupEnrich

SpecCalls == InitCalls /\ [][NextCalls]_vars

----------------------------------------------------------------------------
(* The collector: bin/crawl_localgov.py *)

SOURCE_ID == "localgov.co.uk"

\* ord(c) for the characters of the sample patterns
CodePoint ==
    ("*" :> 42) @@ ("." :> 46) @@ ("A" :> 65) @@ ("a" :> 97) @@ ("b" :> 98) @@
    ("c" :> 99) @@ ("d" :> 100)

\* s < t on str: the first differing character decides, a proper prefix is smaller
RECURSIVE StrLess(_, _)
StrLess(s, t) ==
    IF t = <<>> THEN FALSE
    ELSE IF s = <<>> THEN TRUE
    ELSE IF Head(s) = Head(t) THEN StrLess(Tail(s), Tail(t))
    ELSE CodePoint[Head(s)] < CodePoint[Head(t)]

\* entry put into a sorted list behind the entries whose key is not greater
RECURSIVE Inserted(_, _)
Inserted(sorted, entry) ==
    IF sorted = <<>> THEN <<entry>>
    ELSE IF StrLess(entry.domain_pattern, Head(sorted).domain_pattern)
    THEN <<entry>> \o sorted
    ELSE <<Head(sorted)>> \o Inserted(Tail(sorted), entry)

\* a faulty variant of SortedByPattern: the list is left in the order of insertion
Unsorted(domains) == domains

\* line 284: data["domains"].sort(key=lambda x: x["domain_pattern"]), a stable sort
RECURSIVE SortedByPattern(_)
SortedByPattern(domains) ==
    IF domains = <<>> THEN <<>>
    ELSE Inserted(SortedByPattern(SubSeq(domains, 1, Len(domains) - 1)),
                  domains[Len(domains)])

\* a faulty variant of Stale: the entry's source is not looked at
StaleAnySource(entry, crawled) == Lower(entry.domain_pattern) \notin crawled

\* the condition of find_stale_domains, lines 215-216
Stale(entry, crawled) ==
    /\ "source" \in DOMAIN entry
    /\ entry.source = SOURCE_ID
    /\ Lower(entry.domain_pattern) \notin crawled

\* find_stale_domains(data, crawled_domains)
find_stale_domains(d, crawled) ==
    SelectSeq(d.domains, LAMBDA entry : Stale(entry, crawled))

\* remove_stale_domains(data, stale_domains): the data it leaves and what it returns
remove_stale_domains(d, stale) ==
    LET stale_patterns == {Lower(stale[i].domain_pattern) : i \in DOMAIN stale}
        original_count == Len(d.domains)
        kept == SelectSeq(d.domains,
                          LAMBDA entry : Lower(entry.domain_pattern) \notin stale_patterns)
    IN  [data |-> [d EXCEPT !.domains = kept], removed |-> original_count - Len(kept)]

LocalAuthority ==
    <<"L", "o", "c", "a", "l", " ", "a", "u", "t", "h", "o", "r", "i", "t", "y", ":", " ">>

\* line 254: f"Local authority: {council['council_name']}"
NewNotes(council_name) == LocalAuthority \o council_name

\* lines 269-276: the entry merge_domains creates
NewEntry(domain, new_notes) ==
    [domain_pattern |-> domain, identifiers |-> EmptyDict, notes |-> new_notes,
     organisation_id |-> None, organisation_type_id |-> "local_authority",
     source |-> SOURCE_ID]

\* line 248: the entries by lower-cased pattern; an entry is named by its index in
\* data["domains"], and of two entries under one key the later one stays
ExistingByDomain(domains) ==
    [k \in {Lower(domains[i].domain_pattern) : i \in DOMAIN domains} |->
        CHOOSE i \in DOMAIN domains :
            /\ Lower(domains[i].domain_pattern) = k
            /\ \A j \in DOMAIN domains : Lower(domains[j].domain_pattern) = k => j <= i]

\* a faulty variant of CrawledKey: the crawled domain is taken as it was written
CrawledKeyAsIs(domain) == domain

\* line 253: council["domain"].lower()
CrawledKey(domain) == Lower(domain)

\* a faulty variant of OwnEntry: every existing entry is treated as the collector's
AnyEntry(entry) == TRUE

\* line 260: existing_entry.get("source") == SOURCE_ID
OwnEntry(entry) == "source" \in DOMAIN entry /\ entry.source = SOURCE_ID

\* the loop of lines 252-281 from council i on; st holds data["domains"],
\* existing_by_domain and the two counters
RECURSIVE MergeFrom(_, _, _)
MergeFrom(st, results, i) ==
    IF i > Len(results) THEN st
    ELSE LET council == results[i]
             domain == CrawledKey(council.domain)
             new_notes == NewNotes(council.council_name)
         IN  IF domain \in DOMAIN st.existing_by_domain
             THEN LET k == st.existing_by_domain[domain]
                      existing_entry == st.domains[k]
                  IN  IF OwnEntry(existing_entry)
                            /\ Get(existing_entry, "notes", <<>>) # new_notes
                      THEN MergeFrom(
                               [st EXCEPT
                                   !.domains[k] =
                                       [f \in DOMAIN existing_entry \cup {"notes"} |->
                                           IF f = "notes" THEN new_notes
                                           ELSE existing_entry[f]],
                                   !.updated_count = @ + 1],
                               results, i + 1)
                      ELSE MergeFrom(st, results, i + 1)
             ELSE MergeFrom(
                      [domains |-> Append(st.domains, NewEntry(domain, new_notes)),
                       existing_by_domain |->
                           [k \in DOMAIN st.existing_by_domain \cup {domain} |->
                               IF k = domain THEN Len(st.domains) + 1
                               ELSE st.existing_by_domain[k]],
                       new_count |-> st.new_count + 1,
                       updated_count |-> st.updated_count],
                      results, i + 1)

\* merge_domains(data, council_results): the data it leaves and what it returns
merge_domains(d, results) ==
    LET st == MergeFrom([domains |-> d.domains,
                         existing_by_domain |-> ExistingByDomain(d.domains),
                         new_count |-> 0, updated_count |-> 0], results, 1)
    IN  [data |-> [d EXCEPT !.domains = SortedByPattern(st.domains)],
         new_count |-> st.new_count, updated_count |-> st.updated_count]

\* bump_minor_version on the version as major, minor, patch
bump_minor_version(version) == <<version[1], version[2] + 1, 0>>

\* most crawl results of one run of the collector
MaxResults == 2

d_b == <<"d", ".", "b">>
c_b_own == NewEntry(c_b, NewNotes(<<"C">>))
a_b_own == NewEntry(a_b, NewNotes(<<"A">>))
A_b_manual == Entry(A_b, Some("o1"), <<"m">>, "manual")
d_b_manual == Entry(d_b, None, <<"m">>, "manual")
star_b_manual == Entry(star_b, None, <<"m">>, "manual")

CollectorEntries == {a_b_own, c_b_own, A_b_manual, d_b_manual, star_b_manual}

\* the registries the collector may find in data/user_domains.json: hand-edited,
\* in any order, the patterns unique
CollectorRegistries == Registries(CollectorEntries, MaxEntries)

\* what fetch_council returns for a council whose page names a domain
Council(name, domain) == [council_name |-> name, domain |-> domain]

CouncilResults ==
    {Council(<<"A">>, a_b), Council(<<"Z">>, A_b), Council(<<"D">>, d_b),
     Council(<<"C">>, c_b)}

\* the lists crawl_councils may return: the councils in the order their fetches end
RECURSIVE CouncilResultLists(_)
CouncilResultLists(n) ==
    IF n = 0 THEN {<<>>}
    ELSE LET shorter == CouncilResultLists(n - 1)
         IN  shorter \cup {Append(rs, c) : rs \in shorter, c \in CouncilResults}

\* most runs of the collector on one registry file
MaxRuns == 2

\* main, lines 319-326, with rs what crawl_councils returns: the crawl, the set
\* of crawled domains, the load of the file
CrawlOf(rs) ==
    /\ council_results' = rs
    /\ crawled_domains' = {Lower(rs[i].domain) : i \in DOMAIN rs}
    /\ data' = Some(user_domains)
    /\ stale_domains' = <<>>
    /\ counts' = [new_count |-> 0, updated_count |-> 0, removed_count |-> 0]
    /\ runs' = runs + 1
    /\ file_before' = user_domains
    /\ cpc' = "crawled"
    /\ UNCHANGED <<remove, user_domains, old_domains>>
    /\ UNCHANGED <<_data, prov, published, loaderVars, lookupVars, prev, normVars>>

\* the first run of main on the registry file
Crawl ==
    /\ cpc = "start"
    /\ \E rs \in CouncilResultLists(MaxResults) : CrawlOf(rs)

\* main run again on the file the run before left, the council pages unchanged:
\* crawl_councils returns the list it returned before
CrawlAgain ==
    /\ cpc = "done"
    /\ runs < MaxRuns
    /\ CrawlOf(council_results)

\* main, line 330: find_stale_domains
FindStale ==
    /\ cpc = "crawled"
    /\ stale_domains' = find_stale_domains(data[1], crawled_domains)
    /\ cpc' = "checked"
    /\ UNCHANGED <<remove, user_domains, data, council_results, crawled_domains, counts,
                   old_domains, runs, file_before>>
    /\ UNCHANGED <<_data, prov, published, loaderVars, lookupVars, prev, normVars>>

\* main, lines 333-345: with stale entries found and --remove given
RemoveStale ==
    /\ cpc = "checked"
    /\ stale_domains # <<>>
    /\ remove
    /\ LET r == remove_stale_domains(data[1], stale_domains)
       IN  /\ data' = Some(r.data)
           /\ counts' = [counts EXCEPT !.removed_count = r.removed]
    /\ old_domains' = data[1].domains
    /\ cpc' = "removed"
    /\ UNCHANGED <<remove, user_domains, council_results, crawled_domains, stale_domains,
                   runs, file_before>>
    /\ UNCHANGED <<_data, prov, published, loaderVars, lookupVars, prev, normVars>>

\* main, lines 350-357: merge_domains, then the version bump and the save when
\* anything was added, updated or removed
Merge ==
    /\ \/ cpc = "removed"
       \/ cpc = "checked" /\ ~(stale_domains # <<>> /\ remove)
    /\ LET m == merge_domains(data[1], council_results)
           changed == m.new_count > 0 \/ counts.removed_count > 0 \/ m.updated_count > 0
           saved == [m.data EXCEPT !.version = bump_minor_version(@)]
       IN  /\ data' = IF changed THEN Some(saved) ELSE Some(m.data)
           /\ user_domains' = IF changed THEN saved ELSE user_domains
           /\ counts' = [counts EXCEPT !.new_count = m.new_count,
                                       !.updated_count = m.updated_count]
    /\ old_domains' = data[1].domains
    /\ cpc' = "done"
    /\ UNCHANGED <<remove, council_results, crawled_domains, stale_domains, runs,
                   file_before>>
    /\ UNCHANGED <<_data, prov, published, loaderVars, lookupVars, prev, normVars>>

\* SpecCollector: runs of crawl_localgov.main on a registry file
InitCollector ==
    /\ phase = "ready"
    /\ USE_REQUESTS = FALSE
    /\ allow_remote = FALSE
    /\ data_source = Some("local")
    /\ _data = [f \in Files |-> IF f = REGISTRY THEN Some(Array(<<>>)) ELSE Some(DirKeyed)]
    /\ rpc = "idle"
    /\ ri = 1
    /\ nrefresh = 1
    /\ outcome = "returned"
    /\ fetchLog = <<>>
    /\ prov = [f \in Files |-> [load |-> 1, origin |-> "local"]]
    /\ before = [prov |-> [f \in Files |-> NoProv], source |-> None]
    /\ published = _data
    /\ LookupIdle
    /\ NormIdle
    /\ cpc = "start"
    /\ remove \in BOOLEAN
    /\ \E r \in CollectorRegistries : user_domains = [version |-> FirstVersion, domains |-> r]
    /\ data = None
    /\ council_results = <<>>
    /\ crawled_domains = {}
    /\ stale_domains = <<>>
    /\ counts = [new_count |-> 0, updated_count |-> 0, removed_count |-> 0]
    /\ old_domains = <<>>
    /\ runs = 0
    /\ file_before = user_domains

NextCollector ==
    \/ Crawl
    \/ CrawlAgain
    \/ FindStale
    \/ RemoveStale
    \/ Merge

SpecCollector == InitCollector /\ [][NextCollector]_vars

----------------------------------------------------------------------------
(* Claims about the loader, checked under Spec *)

RefreshEnded == rpc = "idle" /\ outcome \in {"returned", "raised"}

RemoteFetched(f) ==
    \E i \in DOMAIN fetchLog :
        fetchLog[i].src = "remote" /\ fetchLog[i].file = f /\ fetchLog[i].ok

SomeFailure(src) ==
    \E i \in DOMAIN fetchLog : fetchLog[i].src = src /\ ~fetchLog[i].ok

\* C1: a lookup that runs while refresh() runs reads either the documents as they
\* were before the refresh or the documents of one complete load, never the
\* registry of one and the organisation directory of the other.
C1_SnapshotIsolation ==
    (lpc = "idle" /\ call.op # "none" /\ call.overlap /\ call.dirProv # None) =>
        \/ /\ call.regProv = call.before[REGISTRY]
           /\ call.dirProv[1] = call.before[DIRECTORY]
        \/ /\ call.regProv.load = call.dirProv[1].load
           /\ call.regProv.origin = call.dirProv[1].origin

\* C2: a refresh() of a loaded instance that raises leaves every stored document
\* (the object each file name is bound to) and data_source as they were before it.
C2_FailedRefreshKeepsSnapshot ==
    (RefreshEnded /\ outcome = "raised" /\ before.source # None) =>
        /\ prov = before.prov
        /\ data_source = before.source

\* C3: after a load or refresh that returns, every stored document was obtained
\* during that load from the source data_source names; when a remote document
\* failed, that source is the local one.
C3_SingleSourceSnapshot ==
    (RefreshEnded /\ outcome = "returned") =>
        /\ data_source # None
        /\ \A f \in Files :
               /\ _data[f] # None
               /\ prov[f] = [load |-> nrefresh, origin |-> data_source[1]]
        /\ SomeFailure("remote") => data_source = Some("local")

\* the case of C3: a remote document was stored, the next one failed, and the
\* refresh of a loaded instance returned from the local source
C3_Witness ==
    /\ RefreshEnded
    /\ outcome = "returned"
    /\ nrefresh = 2
    /\ RemoteFetched(REGISTRY)
    /\ SomeFailure("remote")
    /\ data_source = Some("local")

\* C4: refresh() raises exactly when the remote attempt failed (disabled, or a
\* document failed) and the local attempt failed; otherwise data_source is
\* "remote" if every document was fetched remotely and "local" otherwise. The
\* local source is tried only after the remote attempt failed, a disabled
\* remote source is never asked, and no source is asked twice for a document.
C4_RefreshOutcome ==
    LET remoteOff == ~USE_REQUESTS \/ ~allow_remote
        remoteFailed == remoteOff \/ SomeFailure("remote")
        localTried == \E i \in DOMAIN fetchLog : fetchLog[i].src = "local"
        remoteTried == \E i \in DOMAIN fetchLog : fetchLog[i].src = "remote"
    IN  /\ RefreshEnded =>
               /\ outcome = "raised" <=> (remoteFailed /\ SomeFailure("local"))
               /\ outcome = "returned" =>
                      data_source = IF \A f \in Files : RemoteFetched(f)
                                    THEN Some("remote") ELSE Some("local")
        /\ outcome # "none" =>
               /\ localTried => remoteFailed
               /\ remoteTried => ~remoteOff
               /\ \A i, j \in DOMAIN fetchLog :
                      (fetchLog[i].src = fetchLog[j].src /\ fetchLog[i].file = fetchLog[j].file)
                          => i = j

\* the case of C4: the remote attempt stored a document and then failed, and the
\* local attempt failed too, so refresh() raised
C4_Witness ==
    /\ RefreshEnded
    /\ outcome = "raised"
    /\ RemoteFetched(REGISTRY)
    /\ SomeFailure("remote")
    /\ SomeFailure("local")

----------------------------------------------------------------------------
(* Claims about domain resolution, checked under SpecLookup *)

RegistryDoc == _data[REGISTRY][1]
DirectoryDoc == _data[DIRECTORY][1]

\* the documents have the shapes of the data model: the registry is the sequence
\* of Domain Entries, the directory maps organisation ids to records
DataModelShaped == RegistryDoc.kind = "array" /\ DirectoryDoc.kind = "object"

\* a call of organisational_context_for_domain with a valid domain has ended
ResolvedDomain ==
    /\ lpc = "idle"
    /\ call.op = "organisational_context_for_domain"
    /\ _normalise_domain(call.input).kind = "return"

Normalised == _normalise_domain(call.input).val

ExactEntries(items) == {i \in DOMAIN items : items[i].domain_pattern = Normalised}

\* "*.S" matches when the normalised domain ends with ".S"
WildcardEntries(items) ==
    {i \in DOMAIN items :
        /\ Len(items[i].domain_pattern) >= 2
        /\ SubSeq(items[i].domain_pattern, 1, 2) = <<"*", ".">>
        /\ EndsWith(Normalised,
                    <<".">> \o SubSeq(items[i].domain_pattern, 3,
                                      Len(items[i].domain_pattern)))}

Last(S) == CHOOSE i \in S : \A j \in S : j <= i

ReturnsEntry(i) ==
    /\ result.kind = "return"
    /\ result.val # None
    /\ call.idx = i
    /\ result.val[1].domain_pattern = RegistryDoc.items[i].domain_pattern

\* C5: when an entry's domain_pattern equals the normalised domain, the lookup
\* returns that entry, wherever the matching wildcard entries stand in the
\* registry (a registry being a sequence of Domain Entries, next to a directory
\* keyed by organisation id).
C5_ExactMatchWins ==
    (ResolvedDomain /\ DataModelShaped) =>
        \A i \in ExactEntries(RegistryDoc.items) :
            /\ ReturnsEntry(i)
            /\ result.val[1].domain_pattern = Normalised

\* the case of C5: a matching wildcard entry stands before the exact entry
C5_Witness ==
    /\ ResolvedDomain
    /\ DataModelShaped
    /\ 2 \in ExactEntries(RegistryDoc.items)
    /\ 1 \in WildcardEntries(RegistryDoc.items)
    /\ ReturnsEntry(2)

\* C6: when no entry's domain_pattern equals the normalised domain, the lookup
\* returns the matching wildcard entry that stands last in the registry, and
\* None, raising nothing, when no wildcard matches (a registry being a sequence
\* of Domain Entries, next to a directory keyed by organisation id).
C6_LastWildcardWins ==
    (ResolvedDomain /\ DataModelShaped /\ ExactEntries(RegistryDoc.items) = {}) =>
        IF WildcardEntries(RegistryDoc.items) = {}
        THEN result = Return(None)
        ELSE ReturnsEntry(Last(WildcardEntries(RegistryDoc.items)))

\* the case of C6: two wildcards match, the longer one first; the shorter, last
\* one is returned
C6_Witness ==
    /\ ResolvedDomain
    /\ DataModelShaped
    /\ ExactEntries(RegistryDoc.items) = {}
    /\ WildcardEntries(RegistryDoc.items) = {1, 2}
    /\ Len(RegistryDoc.items[1].domain_pattern) > Len(RegistryDoc.items[2].domain_pattern)
    /\ ReturnsEntry(2)

\* C7: no lookup changes the stored documents: they stay what the last
\* successful load stored, and a lookup made without enrichment returns an
\* entry without the govuk_data field.
C7_LookupsLeaveSnapshot ==
    /\ _data = published
    /\ (/\ lpc = "idle"
        /\ call.op \in {"organisational_context_for_domain",
                        "organisational_context_for_email"}
        /\ ~call.with_govuk_data
        /\ result.kind = "return"
        /\ result.val # None)
           => "govuk_data" \notin DOMAIN result.val[1]

\* C8: resolving a non-wildcard domain_pattern of the loaded registry, as it is
\* stored, returns the entry that carries it.
C8_RoundTrip ==
    (/\ lpc = "idle"
     /\ call.op = "organisational_context_for_domain"
     /\ DataModelShaped
     /\ call.input # None)
        => \A i \in DOMAIN RegistryDoc.items :
               (/\ RegistryDoc.items[i].domain_pattern = call.input[1]
                /\ ~StartsWith(call.input[1], <<"*", ".">>))
                   => ReturnsEntry(i)

\* C9: with the registry document in the persisted format, a lookup scans the
\* entries of its "domains" array: it returns the entry whose domain_pattern
\* equals the domain, and None for a domain no entry matches; it does not raise.
C9_PersistedFormat ==
    (ResolvedDomain /\ RegistryDoc.kind = "object" /\ DirectoryDoc.kind = "object") =>
        LET domains == RegistryDoc.map.domains
        IN  /\ result.kind = "return"
            /\ \A i \in ExactEntries(domains) :
                   /\ result.val # None
                   /\ result.val[1].domain_pattern = domains[i].domain_pattern
            /\ (ExactEntries(domains) = {} /\ WildcardEntries(domains) = {})
                   => result.val = None

----------------------------------------------------------------------------
(* Claims about _normalise_domain, checked under SpecNorm *)

\* the <<i, j>> for which s[i..j] is s without its surrounding whitespace
TrimBounds(s) ==
    {b \in (1..(Len(s) + 1)) \X (0..Len(s)) :
        /\ b[1] <= b[2] + 1
        /\ \A k \in 1..(b[1] - 1) : s[k] \in WhiteSpace
        /\ \A k \in (b[2] + 1)..Len(s) : s[k] \in WhiteSpace
        /\ b[1] <= b[2] => (s[b[1]] \notin WhiteSpace /\ s[b[2]] \notin WhiteSpace)}

\* the n for which t[1..n] is t without its trailing dots, all of them
DotFreeLengths(t) ==
    {n \in 0..Len(t) :
        /\ \A k \in (n + 1)..Len(t) : t[k] = "."
        /\ n > 0 => t[n] # "."}

\* the input trimmed, lower-cased and without its trailing dots
ExpectedNormalForms(s) ==
    UNION {{SubSeq(t, 1, n) : n \in DotFreeLengths(t)} :
              t \in {Lower(SubSeq(s, b[1], b[2])) : b \in TrimBounds(s)}}

\* C10 as amended: _normalise_domain returns the input trimmed, lower-cased and
\* with every trailing "." removed, and raises the invalid-domain error exactly
\* when the input is None or that string is empty or holds no ".".
C10_NormaliseStripsAllDots ==
    nout # Pending =>
        /\ nin = None => nout = Raise("ValueError")
        /\ nin # None =>
               /\ ExpectedNormalForms(nin[1]) # {}
               /\ \A r \in ExpectedNormalForms(nin[1]) :
                      nout = IF r = <<>> \/ ~Contains(r, ".")
                             THEN Raise("ValueError") ELSE Return(r)
        /\ nin = Some(<<" ", "E", "x", "a", "m", "p", "l", "e", ".", "G", "O", "V", ".",
                        "U", "K", ".">>)
               => nout = Return(<<"e", "x", "a", "m", "p", "l", "e", ".", "g", "o", "v", ".",
                                  "u", "k">>)
        /\ nin = Some(<<"n", "o", "t", "-", "a", "-", "d", "o", "m", "a", "i", "n">>)
               => nout = Raise("ValueError")

\* the case of C10: an input that ends with two dots lost both
C10_Witness ==
    /\ nin = Some(<<".", "a", ".", ".">>)
    /\ nout = Return(<<".", "a">>)

\* C10 as stated: exactly one trailing "." is removed, a second one is kept.
C10_NormaliseStripsOneDot ==
    (nout # Pending /\ nin # None) =>
        LET r == OneTrailingDotStripped(Lower(Strip(nin[1])))
        IN  nout = IF r = <<>> \/ ~Contains(r, ".")
                   THEN Raise("ValueError") ELSE Return(r)

----------------------------------------------------------------------------
(* Claims about the lookups of one caller, checked under SpecCalls *)

CallEnded == lpc = "idle" /\ call.op # "none"

\* the caller's last two lookups have ended
TwoCallsEnded == CallEnded /\ prev.op # "none"

\* d1 and d2 are valid domains with one canonical form: trimmed, lower-cased and
\* without trailing dots they are the same string, which holds a "."
SameCanonical(d1, d2) ==
    /\ d1 # None
    /\ d2 # None
    /\ ExpectedNormalForms(d1[1]) = ExpectedNormalForms(d2[1])
    /\ \A r \in ExpectedNormalForms(d1[1]) : Contains(r, ".")

\* C11: two calls of organisational_context_for_domain on the same loaded
\* documents, with the same with_govuk_data, whose inputs have the same canonical
\* form give the same result: the same entry, both None, or the same error.
C11_SameCanonicalSameResult ==
    (/\ TwoCallsEnded
     /\ call.op = "organisational_context_for_domain"
     /\ prev.op = "organisational_context_for_domain"
     /\ call.with_govuk_data = prev.with_govuk_data
     /\ SameCanonical(prev.input, call.input))
        => result = prev.result

\* the case of C11: " a.b" and then "a.b." were resolved to the same entry
C11_Witness ==
    /\ TwoCallsEnded
    /\ call.op = "organisational_context_for_domain"
    /\ prev.op = "organisational_context_for_domain"
    /\ prev.input = Some(sp_a_b)
    /\ call.input = Some(a_b_dot)
    /\ result.kind = "return"
    /\ result.val # None
    /\ result.val[1].domain_pattern = a_b
    /\ result = prev.result

\* x is the text of email e after its last "@"
IsAfterLastAt(e, x) ==
    \E i \in DOMAIN e :
        /\ e[i] = "@"
        /\ x = SubSeq(e, i + 1, Len(e))
        /\ ~Contains(x, "@")

\* one of the caller's last two lookups is organisational_context_for_email(e, w)
\* and the other organisational_context_for_domain(x, w), x the text after the
\* last "@" of e
EmailAndItsDomain(c, d) ==
    /\ c.op = "organisational_context_for_email"
    /\ d.op = "organisational_context_for_domain"
    /\ c.with_govuk_data = d.with_govuk_data
    /\ c.input # None
    /\ d.input # None
    /\ IsAfterLastAt(c.input[1], d.input[1])

\* C12: for an email that holds an "@", organisational_context_for_email ends as
\* organisational_context_for_domain does on the text after the last "@", with the
\* same with_govuk_data: the same entry, both None, or the same error.
C12_EmailAsDomain ==
    (TwoCallsEnded /\ (EmailAndItsDomain(call, prev) \/ EmailAndItsDomain(prev, call)))
        => result = prev.result

\* the case of C12: "a.b" and then "v@u@a.b" were resolved to the same entry
C12_Witness ==
    /\ TwoCallsEnded
    /\ EmailAndItsDomain(call, prev)
    /\ call.input = Some(v_at_u_at_a_b)
    /\ prev.input = Some(a_b)
    /\ result.kind = "return"
    /\ result.val # None
    /\ result.val[1].domain_pattern = a_b
    /\ result = prev.result

\* an email without "@" (None included), or with nothing before its last "@"
MalformedEmail(email) ==
    \/ email = None
    \/ ~Contains(email[1], "@")
    \/ IsAfterLastAt(email[1], Tail(email[1]))

\* C13: organisational_context_for_email and is_ukps_email raise the
\* invalid-domain error (ValueError) for an email that holds no "@" and for one
\* whose local part is empty; they return neither an entry nor a truth value.
C13_MalformedEmailFails ==
    (/\ CallEnded
     /\ call.op \in EmailOps
     /\ RegistryDoc.kind = "array"
     /\ MalformedEmail(call.input))
        => result = Raise("ValueError")

\* the operation whose result the predicate turns into a truth value
ResolutionOf(op) ==
    IF op = "is_ukps_domain" THEN "organisational_context_for_domain"
    ELSE "organisational_context_for_email"

\* the Domain Entries of the loaded registry document
RegisteredEntries ==
    IF RegistryDoc.kind = "array" THEN RegistryDoc.items ELSE RegistryDoc.map.domains

\* pattern is the domain r, or the wildcard "*.S" and r ends with ".S"
PatternMatches(pattern, r) ==
    \/ pattern = r
    \/ /\ Len(pattern) >= 2
       /\ SubSeq(pattern, 1, 2) = <<"*", ".">>
       /\ EndsWith(r, SubSeq(pattern, 2, Len(pattern)))

\* d is a valid domain that no entry of the registry matches
ValidUnregistered(d) ==
    /\ SameCanonical(d, d)
    /\ \A r \in ExpectedNormalForms(d[1]) :
           \A i \in DOMAIN RegisteredEntries :
               ~PatternMatches(RegisteredEntries[i].domain_pattern, r)

\* C14: is_ukps_domain / is_ukps_email return True exactly when the resolution of
\* the same input without enrichment returns an entry, and raise what it raises;
\* for a valid domain that no entry matches is_ukps_domain returns False.
C14_PredicatesFollowResolution ==
    /\ (/\ TwoCallsEnded
        /\ call.op \in PredicateOps
        /\ prev.op = ResolutionOf(call.op)
        /\ prev.input = call.input
        /\ ~prev.with_govuk_data)
           => IF prev.result.kind = "return"
              THEN result = Return(prev.result.val # None)
              ELSE result = prev.result
    /\ (CallEnded /\ call.op = "is_ukps_domain" /\ ValidUnregistered(call.input))
           => result = Return(FALSE)

\* C16: when the matched entry has an organisation_id and enrichment is asked
\* for, the directory's record for that id is returned under govuk_data if there
\* is one, and the entry without govuk_data if there is none; otherwise the
\* directory is not read. No case raises.
C16_BestEffortEnrichment ==
    (/\ CallEnded
     /\ call.op = "organisational_context_for_domain"
     /\ RegistryDoc.kind = "array"
     /\ call.entry # None)
        => /\ result.kind = "return"
           /\ result.val # None
           /\ IF call.with_govuk_data /\ call.entry[1].organisation_id # None
              THEN DirectoryDoc.kind = "object" =>
                       LET id == call.entry[1].organisation_id[1]
                       IN  IF id \in DOMAIN DirectoryDoc.map
                           THEN /\ "govuk_data" \in DOMAIN result.val[1]
                                /\ result.val[1].govuk_data = DirectoryDoc.map[id]
                           ELSE "govuk_data" \notin DOMAIN result.val[1]
              ELSE call.dirProv = None

----------------------------------------------------------------------------
(* Claims about the collector, checked under SpecCollector *)

Merged == cpc = "done"

NewDomains == data[1].domains

\* the indices of the entries of domains that carry pattern
Carrying(domains, pattern) ==
    {j \in DOMAIN domains : domains[j].domain_pattern = pattern}

\* the crawl results whose domain is, in lower case, the lower-cased pattern of
\* an entry that was in the registry before the merge under another source
ResultsOnForeign ==
    {i \in DOMAIN council_results :
        \E k \in DOMAIN old_domains :
            /\ old_domains[k].source # SOURCE_ID
            /\ Lower(old_domains[k].domain_pattern) = Lower(council_results[i].domain)}

\* C17: merge_domains leaves every entry of another source as it was, field for
\* field, and changes nothing but the notes of an entry of its own source; crawl
\* results for the domain of another source's entry add nothing to new_count or
\* updated_count.
C17_MergeTouchesOwnNotesOnly ==
    Merged =>
        /\ \A k \in DOMAIN old_domains :
               LET e == old_domains[k]
                   after == Carrying(NewDomains, e.domain_pattern)
               IN  /\ Cardinality(after) = 1
                   /\ \A j \in after :
                          IF e.source # SOURCE_ID
                          THEN NewDomains[j] = e
                          ELSE /\ DOMAIN NewDomains[j] = DOMAIN e
                               /\ \A f \in DOMAIN e \ {"notes"} : NewDomains[j][f] = e[f]
        /\ counts.new_count + counts.updated_count
               <= Len(council_results) - Cardinality(ResultsOnForeign)

\* the case of C17: the crawl brought the domain of another source's entry and,
\* under a new council name and in upper case, the domain of an entry of its own;
\* the first was skipped, the second got new notes
C17_Witness ==
    /\ Merged
    /\ old_domains = <<d_b_manual, a_b_own>>
    /\ council_results = <<Council(<<"D">>, d_b), Council(<<"Z">>, A_b)>>
    /\ NewDomains = <<NewEntry(a_b, NewNotes(<<"Z">>)), d_b_manual>>
    /\ counts.new_count = 0
    /\ counts.updated_count = 1

\* the patterns of domains are pairwise distinct after lower-casing
LowerUnique(domains) ==
    \A i, j \in DOMAIN domains :
        i # j => Lower(domains[i].domain_pattern) # Lower(domains[j].domain_pattern)

\* C18: when the patterns of the registry are pairwise distinct after lower-casing
\* before merge_domains, they are so after it, and the registry has grown by
\* new_count entries.
C18_MergeKeepsPatternsUnique ==
    (Merged /\ LowerUnique(old_domains)) =>
        /\ LowerUnique(NewDomains)
        /\ Len(NewDomains) = Len(old_domains) + counts.new_count

\* the case of C18: the crawl brought a domain that differs from a stored pattern
\* in case only, twice; nothing was added
C18_Witness ==
    /\ Merged
    /\ old_domains = <<A_b_manual>>
    /\ council_results = <<Council(<<"A">>, a_b), Council(<<"Z">>, A_b)>>
    /\ counts.new_count = 0
    /\ NewDomains = <<A_b_manual>>

Range(seq) == {seq[i] : i \in DOMAIN seq}

\* s holds the elements of t that are in the set keep, in the order of t
SubsequenceOn(s, t, keep) ==
    /\ Range(s) = Range(t) \cap keep
    /\ Len(s) = Cardinality({i \in DOMAIN t : t[i] \in keep})
    /\ \A i, j \in DOMAIN s :
           i < j => \E k, l \in DOMAIN t : k < l /\ t[k] = s[i] /\ t[l] = s[j]

\* the entries of the collector's source whose lower-cased pattern was not crawled
OwnUncrawled(domains) ==
    {e \in Range(domains) :
        e.source = SOURCE_ID /\ Lower(e.domain_pattern) \notin crawled_domains}

\* C19: find_stale_domains returns the entries of source localgov.co.uk whose
\* lower-cased pattern is not in the crawled set, and no other; remove_stale_domains
\* deletes these entries and no other, so no entry of another source, and returns
\* how many it deleted.
C19_StaleRespectsOwnership ==
    /\ cpc = "checked" =>
           SubsequenceOn(stale_domains, data[1].domains, OwnUncrawled(data[1].domains))
    /\ cpc = "removed" =>
           /\ SubsequenceOn(NewDomains, old_domains,
                            Range(old_domains) \ OwnUncrawled(old_domains))
           /\ \A e \in Range(old_domains) : e.source # SOURCE_ID => e \in Range(NewDomains)
           /\ counts.removed_count = Len(old_domains) - Len(NewDomains)
           /\ counts.removed_count = Len(stale_domains)

\* the case of C19: of an entry of another source and an uncrawled entry of the
\* collector's source, the second was removed
C19_Witness ==
    /\ cpc = "removed"
    /\ old_domains = <<c_b_own, A_b_manual>>
    /\ crawled_domains = {a_b}
    /\ stale_domains = <<c_b_own>>
    /\ NewDomains = <<A_b_manual>>
    /\ counts.removed_count = 1

\* the patterns of domains ascend in the order of str
Ascending(domains) ==
    \A i, j \in DOMAIN domains :
        i < j => ~StrLess(domains[j].domain_pattern, domains[i].domain_pattern)

\* C20: after merge_domains the entries of the registry ascend by domain_pattern,
\* and so does the registry the collector has saved.
C20_MergeSorts ==
    Merged =>
        /\ Ascending(NewDomains)
        /\ (counts.new_count + counts.updated_count + counts.removed_count > 0)
               => /\ user_domains.domains = NewDomains
                  /\ Ascending(user_domains.domains)

\* the case of C20: an unsorted registry and a new domain that belongs between
\* its entries
C20_Witness ==
    /\ Merged
    /\ old_domains = <<d_b_manual, A_b_manual>>
    /\ council_results = <<Council(<<"C">>, c_b)>>
    /\ NewDomains = <<A_b_manual, c_b_own, d_b_manual>>
    /\ user_domains.domains = NewDomains

----------------------------------------------------------------------------
(* Claims about lookups beside the loader, checked under Spec *)

\* C15: a lookup of an instance no load of which has succeeded raises the
\* not-loaded error (RuntimeError) whatever its input, before the input is looked
\* at; a lookup of an instance that was loaded once never raises it, also after a
\* later refresh() has raised.
C15_NotLoadedIffNeverLoaded ==
    CallEnded => (result = Raise("RuntimeError") <=> ~call.loaded)

\* the case of C15: the constructor raised, and is_ukps_email of an email
\* without "@" raised the not-loaded error, not the invalid-domain error
C15_Witness ==
    /\ CallEnded
    /\ ~call.loaded
    /\ phase = "failed"
    /\ call.op = "is_ukps_email"
    /\ _extract_domain_from_email(call.input) = None
    /\ result = Raise("RuntimeError")

----------------------------------------------------------------------------
(* Claims about wildcard matching, checked under SpecLookup *)

IsWildcard(pattern) == Len(pattern) >= 2 /\ SubSeq(pattern, 1, 2) = <<"*", ".">>

\* S of a pattern "*.S"
WildcardSuffix(pattern) == SubSeq(pattern, 3, Len(pattern))

\* domain is x.S with x of at least MinLabel characters
LabelsBefore(domain, S, MinLabel) ==
    \E k \in (MinLabel + 1)..Len(domain) :
        domain[k] = "." /\ SubSeq(domain, k + 1, Len(domain)) = S

\* a proper subdomain of S: x.S with x non-empty
ProperSubdomainOf(domain, S) == LabelsBefore(domain, S, 1)

\* a domain that ends with ".S", ".S" itself included
EndsWithDotSuffix(domain, S) == LabelsBefore(domain, S, 0)

\* a lookup of a valid domain that no entry's pattern equals has ended
WildcardLookup ==
    /\ ResolvedDomain
    /\ DataModelShaped
    /\ ExactEntries(RegistryDoc.items) = {}

\* the wildcard entries "*.S" with S a proper suffix of the normalised domain
ProperWildcards ==
    {i \in DOMAIN RegistryDoc.items :
        /\ IsWildcard(RegistryDoc.items[i].domain_pattern)
        /\ ProperSubdomainOf(Normalised,
                             WildcardSuffix(RegistryDoc.items[i].domain_pattern))}

\* the wildcard entries "*.S" with the normalised domain ending with ".S"
DotSuffixWildcards ==
    {i \in DOMAIN RegistryDoc.items :
        /\ IsWildcard(RegistryDoc.items[i].domain_pattern)
        /\ EndsWithDotSuffix(Normalised,
                             WildcardSuffix(RegistryDoc.items[i].domain_pattern))}

\* C21 as stated: a wildcard entry "*.S" matches only proper subdomains of S,
\* at any depth: a lookup that no exact entry answers returns an entry exactly
\* when the normalised domain is x.S, x non-empty, for some wildcard entry
\* "*.S", and the entry returned is such an entry.
C21_WildcardProperSubdomains ==
    WildcardLookup =>
        /\ result.kind = "return"
        /\ (result.val # None <=> ProperWildcards # {})
        /\ (result.val # None => call.idx \in ProperWildcards)

\* C21: a wildcard entry "*.S" matches exactly the normalised domains that end
\* with ".S": subdomains of S at any depth, never S itself, never a domain that
\* ends with the characters of S without the dot before them, and also the
\* domain ".S", whose leading label is empty.
C21_WildcardDotSuffix ==
    WildcardLookup =>
        /\ result.kind = "return"
        /\ (result.val # None <=> DotSuffixWildcards # {})
        /\ (result.val # None => call.idx \in DotSuffixWildcards)

\* the case of C21: with only "*.a.b" registered, ".a.b" is answered by the
\* wildcard entry although it is no proper subdomain of "a.b"
C21_Witness ==
    /\ WildcardLookup
    /\ RegistryDoc.items = <<E_wild_ab>>
    /\ call.input = Some(dot_a_b)
    /\ ReturnsEntry(1)
    /\ ProperWildcards = {}

----------------------------------------------------------------------------
(* Claims about runs of the collector after the first, checked under SpecCollector *)

\* a run of main after the first, on the file the run before left and with the
\* crawl results of the run before, has merged
MergedAgain == Merged /\ runs >= 2

\* two crawl results name one domain under different council names
SharedDomain ==
    \E i, j \in DOMAIN council_results :
        /\ Lower(council_results[i].domain) = Lower(council_results[j].domain)
        /\ council_results[i].council_name # council_results[j].council_name

\* C22: merging the same crawl results a second time returns (0, 0) and leaves
\* the entries as they were, so that the re-run bumps no version and leaves the
\* registry file as it found it, two councils on one domain included.
C22_MergeIdempotent ==
    MergedAgain =>
        /\ counts.new_count = 0
        /\ counts.updated_count = 0
        /\ Len(NewDomains) = Len(old_domains)
        /\ Range(NewDomains) = Range(old_domains)
        /\ user_domains = file_before

----------------------------------------------------------------------------
(* Claims about the order of the crawl results, checked under SpecCollector *)

\* the lists crawl_councils may return for the councils of rs: one for each
\* order in which the fetches of the worker threads may end
CompletionOrders(rs) ==
    {[i \in DOMAIN rs |-> rs[f[i]]] : f \in Permutations(DOMAIN rs)}

\* what merge_domains gives on the data of this run for the crawl results rs
MergeOf(rs) == merge_domains([version |-> file_before.version,
                              domains |-> old_domains], rs)

\* C23: whatever the order in which the fetches of the councils end, the merge
\* leaves the same entries, patterns and notes, and returns the same new_count
\* and updated_count.
C23_OrderIndependent ==
    Merged =>
        \A rs \in CompletionOrders(council_results) :
            /\ MergeOf(rs).data.domains = NewDomains
            /\ MergeOf(rs).new_count = counts.new_count
            /\ MergeOf(rs).updated_count = counts.updated_count

====
